---- MODULE Spec2Model ----
(***************************************************************************)
(* Model of s-celles/waveform-generator: waveform_generator.py (the        *)
(* single-channel program, prog = "wave") and xy_waveform_generator.py     *)
(* (the two-channel program, prog = "xy").                                 *)
(*                                                                         *)
(* Python floats are held in fixed point: the integer n stands for the     *)
(* real n / Scale.  The non-finite floats are the three values Inf,        *)
(* NegInf and NaN, which lie outside every finite value the model draws.   *)
(* TLC's integers are 32 bits wide, so the bit depths drawn stop at        *)
(* MaxBits (plus the rejected depths above MaxSupportedBits): beyond it    *)
(* the quantizer's product (value + 1) * max_value leaves TLC's range.     *)
(***************************************************************************)
EXTENDS Integers, Sequences, FiniteSets, TLC

VARIABLES
    prog,           \* which program runs: "wave" or "xy"
    args,           \* the parsed command line (argparse namespace)
    pc,             \* position of main
    generator,      \* the WaveformGenerator / XYWaveformGenerator object, or NoObject
    dirs,           \* directories main has made sure exist
    selected,       \* selected_waves / selected_patterns: the keys, in dict order
    waveforms,      \* waveforms / patterns: the generated entries, in dict order
    invoked,        \* generator functions called so far, in call order
    random_state,   \* state of the module-level random generator
    header_content, \* the assembled artifact text, or NoText
    file,           \* the output file: NoFile, or what was written to it
    reported,       \* identifiers named by the unknown-identifier message
    error,          \* the error main printed or the exception that ended it, or ""
    status,         \* "running", or how the process ended
    q,              \* one application of the quantizer (specification QuantSpec)
    fmt,            \* one call of format_xy_arrays (specification FormatSpec)
    acc,            \* one call of the emitted get_xy_point (AccessorSpec)
    out,            \* one call of the emitted output_xy_pattern (OutputSpec)
    det,            \* a sequence of generator calls on one object (CallsSpec)
    tab             \* one generate_sine table, read element by element (SineSpec)

vars == <<prog, args, pc, generator, dirs, selected, waveforms, invoked,
          random_state, header_content, file, reported, error, status, q, fmt,
          acc, out, det, tab>>

main_vars == <<prog, args, pc, generator, dirs, selected, waveforms, invoked,
               random_state, header_content, file, reported, error, status>>

\* The variables of the specifications that exercise one function.
aux_vars == <<q, fmt, acc, out, det, tab>>

---------------------------------------------------------------------------
(* Bounds of the model.                                                    *)

MaxBits == 17
MaxSize == 4
MaxSelection == 2
MaxMagnitude == 3
MaxRows == 2
MaxPatterns == 2
MaxCalls == 3

(* Program constants.                                                      *)
MaxSupportedBits == 32
Uint8Bits == 8
Uint16Bits == 16
RowLength == 16
DefaultSeed == 12345
Uint16Range == 65536

---------------------------------------------------------------------------
(* Floats.                                                                 *)

Scale == 1000
Inf == 1000000000
NegInf == -Inf
NaN == Inf + 1

IsFinite(v) == v # NaN /\ v # Inf /\ v # NegInf

Abs(n) == IF n < 0 THEN -n ELSE n
Max(a, b) == IF a >= b THEN a ELSE b
Min(a, b) == IF a <= b THEN a ELSE b

\* n / d to the nearest integer, d > 0: the rounding of one fixed-point step.
RoundDiv(n, d) == (n \div d) + (IF 2 * (n % d) >= d THEN 1 ELSE 0)

\* The float n / d written in fixed point.
Real(n, d) == RoundDiv(n * Scale, d)

\* Python's round() of the rational n / d, d > 0: to the nearest integer,
\* a tie going to the even neighbour.
PyRound_half_up(n, d) == (n \div d) + (IF 2 * (n % d) >= d THEN 1 ELSE 0)

PyRound(n, d) ==
    LET quo == n \div d
        rem == n % d
    IN  IF 2 * rem < d THEN quo
        ELSE IF 2 * rem > d THEN quo + 1
        ELSE IF quo % 2 = 0 THEN quo ELSE quo + 1

\* Float arithmetic with the IEEE rules for the non-finite operands.
Sign(v) == IF v = 0 THEN 0 ELSE IF v > 0 THEN 1 ELSE -1

FNeg(a) == IF a = NaN THEN NaN ELSE -a

FMul(a, b) ==
    IF a = NaN \/ b = NaN THEN NaN
    ELSE IF IsFinite(a) /\ IsFinite(b) THEN RoundDiv(a * b, Scale)
    ELSE IF a = 0 \/ b = 0 THEN NaN
    ELSE IF Sign(a) * Sign(b) > 0 THEN Inf ELSE NegInf

\* a / b for a finite divisor b # 0.
FDiv(a, b) ==
    IF a = NaN THEN NaN
    ELSE IF IsFinite(a) THEN
        IF b > 0 THEN RoundDiv(a * Scale, b) ELSE -RoundDiv(a * Scale, -b)
    ELSE IF Sign(a) * Sign(b) > 0 THEN Inf ELSE NegInf

FAdd(a, b) ==
    IF a = NaN \/ b = NaN THEN NaN
    ELSE IF IsFinite(a) /\ IsFinite(b) THEN a + b
    ELSE IF ~IsFinite(a) /\ ~IsFinite(b) /\ a # b THEN NaN
    ELSE IF IsFinite(a) THEN b ELSE a

---------------------------------------------------------------------------
(* The generator object and the quantizer.                                 *)

NoObject == [bits |-> 0, array_size |-> 0, max_value |-> 0, center |-> 0,
             data_type |-> "none"]

\* _get_data_type: the C type, or the exception it raises.
GetDataType_no_uint16(bits) ==
    IF bits <= Uint8Bits THEN "uint8_t"
    ELSE IF bits <= MaxSupportedBits THEN "uint32_t"
    ELSE "ValueError"

GetDataType(bits) ==
    IF bits <= Uint8Bits THEN "uint8_t"
    ELSE IF bits <= Uint16Bits THEN "uint16_t"
    ELSE IF bits <= MaxSupportedBits THEN "uint32_t"
    ELSE "ValueError"

\* __init__ of WaveformGenerator and of XYWaveformGenerator (they are the
\* same): the exception raised ("" for none) and the object built.  An
\* object whose construction raised is never bound, so its fields are not
\* computed here.
NewGenerator(bits, array_size) ==
    IF GetDataType(bits) = "ValueError"
    THEN [raised |-> "ValueError", obj |-> NoObject]
    ELSE [raised |-> "",
          obj |-> [bits |-> bits,
                   array_size |-> array_size,
                   max_value |-> (2 ^ bits) - 1,
                   center |-> ((2 ^ bits) - 1) \div 2,
                   data_type |-> GetDataType(bits)]]

\* The exception round() raises on a non-finite float ("" for none).
\* (value + 1) * max_value / 2 is NaN for NaN, and for an infinity times 0.
RoundRaises(value, max_value) ==
    IF IsFinite(value) THEN ""
    ELSE IF value = NaN \/ max_value = 0 THEN "ValueError"
    ELSE "OverflowError"

\* normalize, and each coordinate of normalize_xy, on a finite value.
normalize_unclamped(value, max_value) ==
    PyRound((value + Scale) * max_value, 2 * Scale)

normalize_half_up(value, max_value) ==
    Max(0, Min(max_value, PyRound_half_up((value + Scale) * max_value, 2 * Scale)))

normalize(value, max_value) ==
    LET normalized == PyRound((value + Scale) * max_value, 2 * Scale)
    IN  Max(0, Min(max_value, normalized))

---------------------------------------------------------------------------
(* The math module, in fixed point.  Each function is a rational          *)
(* approximation of the library function, good to a few parts in a         *)
(* thousand; angles are radians.                                           *)

Pi == Real(355, 113)
TwoPi == 2 * Pi

\* math.sin: Bhaskara's rational form on each half period.
SinHalf(r) ==
    LET p == r * (Pi - r)
    IN  RoundDiv(16 * p, (5 * Pi * Pi - 4 * p) \div Scale)

Sin(x) ==
    LET r == x % TwoPi
    IN  IF r <= Pi THEN SinHalf(r) ELSE -SinHalf(r - Pi)

Cos(x) == Sin(x + Pi \div 2)

\* math.sqrt of x >= 0: the integer square root of x * Scale, by bisection.
RECURSIVE ISqrtIn(_, _, _)
ISqrtIn(n, lo, hi) ==
    IF lo >= hi THEN lo
    ELSE LET mid == (lo + hi + 1) \div 2
         IN  IF mid * mid <= n THEN ISqrtIn(n, mid, hi)
             ELSE ISqrtIn(n, lo, mid - 1)

Sqrt(x) == ISqrtIn(x * Scale, 0, Max(Scale, x))

\* x ** n for a small integer n >= 1.
RECURSIVE Pow(_, _)
Pow(x, n) == IF n <= 1 THEN x ELSE RoundDiv(x * Pow(x, n - 1), Scale)

\* math.exp: e^k for the integer part k, a Taylor polynomial for the rest.
RECURSIVE ExpInt(_)
ExpInt(k) ==
    IF k = 0 THEN Scale
    ELSE IF k > 0 THEN RoundDiv(ExpInt(k - 1) * Real(271828, 100000), Scale)
    ELSE RoundDiv(ExpInt(k + 1) * Real(367879, 1000000), Scale)

Exp(x) ==
    LET k == RoundDiv(x, Scale)
        f == x - k * Scale
        poly == Scale + f + RoundDiv(f * f, 2 * Scale)
                + RoundDiv(Pow(f, 3), 6) + RoundDiv(Pow(f, 4), 24)
    IN  RoundDiv(ExpInt(k) * poly, Scale)

\* math.log of x >= 1: halve down to [1, 2), then 2 * atanh((m - 1) / (m + 1)).
RECURSIVE Log(_)
Log(x) ==
    IF x >= 2 * Scale THEN Real(693147, 1000000) + Log(RoundDiv(x, 2))
    ELSE LET z == RoundDiv((x - Scale) * Scale, x + Scale)
         IN  2 * (z + RoundDiv(Pow(z, 3), 3) + RoundDiv(Pow(z, 5), 5))

\* math.asin of -1 <= y <= 1 (Abramowitz and Stegun 4.4.45).
AsinPos(y) ==
    LET poly == Real(1570729, 1000000)
                - RoundDiv(Real(212114, 1000000) * y, Scale)
                + RoundDiv(Real(74261, 1000000) * Pow(y, 2), Scale)
                - RoundDiv(Real(18729, 1000000) * Pow(y, 3), Scale)
    IN  Pi \div 2 - RoundDiv(Sqrt(Scale - y) * poly, Scale)

Asin(y) == IF y >= 0 THEN AsinPos(y) ELSE -AsinPos(-y)

---------------------------------------------------------------------------
(* WaveformGenerator: the sixteen generators.  Python's element i is       *)
(* element i + 1 of the sequence.  A generator's result is the exception   *)
(* raised ("" for none) and the list returned.                             *)

\* [self.normalize(v) for v in values]: the list, unless round() raises on
\* the first non-finite value.
Comprehension(values, max_value) ==
    LET bad == { i \in DOMAIN values : RoundRaises(values[i], max_value) # "" }
        first == CHOOSE i \in bad : \A j \in bad : i <= j
    IN  IF bad = {}
        THEN [raised |-> "",
              data |-> [i \in DOMAIN values |-> normalize(values[i], max_value)]]
        ELSE [raised |-> RoundRaises(values[first], max_value), data |-> <<>>]

\* The list comprehension over range(self.array_size) of normalize(F(i)).
Samples(g, F(_)) ==
    Comprehension([k \in 1 .. g.array_size |-> F(k - 1)], g.max_value)

\* 2 * math.pi * frequency * i / self.array_size + phase
Theta(g, frequency, i, phase) ==
    RoundDiv(RoundDiv(TwoPi * frequency, Scale) * i, g.array_size) + phase

\* (frequency * i / self.array_size + phase / (2 * math.pi)) % 1
Fraction(g, frequency, i, phase) ==
    (RoundDiv(frequency * i, g.array_size) + FDiv(phase, TwoPi)) % Scale

generate_sine_cosine(g, amplitude, frequency, phase) ==
    Samples(g, LAMBDA i : FMul(amplitude, Cos(Theta(g, frequency, i, phase))))

generate_sine(g, amplitude, frequency, phase) ==
    Samples(g, LAMBDA i : FMul(amplitude, Sin(Theta(g, frequency, i, phase))))

generate_triangle(g, amplitude, frequency, phase) ==
    Samples(g, LAMBDA i :
        FMul(FMul(amplitude, FDiv(2 * Scale, Pi)),
             Asin(Sin(Theta(g, frequency, i, phase)))))

generate_square(g, amplitude, frequency, phase) ==
    Samples(g, LAMBDA i :
        FMul(amplitude,
             IF Sin(Theta(g, frequency, i, phase)) >= 0 THEN Scale ELSE -Scale))

generate_sawtooth(g, amplitude, frequency, phase) ==
    Samples(g, LAMBDA i :
        FMul(amplitude, 2 * Fraction(g, frequency, i, phase) - Scale))

\* No normalize here: round(i * max_value / (array_size - 1)), and the
\* division raises when array_size is 1.
generate_linear_ramp_scaled_by_size(g) ==
    IF g.array_size = 1
    THEN [raised |-> "ZeroDivisionError", data |-> <<>>]
    ELSE [raised |-> "",
          data |-> [k \in 1 .. g.array_size |->
                       PyRound((k - 1) * g.max_value, g.array_size)]]

generate_linear_ramp(g) ==
    IF g.array_size = 1
    THEN [raised |-> "ZeroDivisionError", data |-> <<>>]
    ELSE [raised |-> "",
          data |-> [k \in 1 .. g.array_size |->
                       PyRound((k - 1) * g.max_value, g.array_size - 1)]]

\* The try block of generate_heart: a non-finite value becomes 0.
HeartValue(amplitude, t) ==
    LET value == FDiv(FMul(FMul(amplitude, Cos(t)),
                           FMul(Sin(t), Sqrt(Abs(Cos(t))))),
                      Sin(t) + Real(14, 10))
    IN  IF ~IsFinite(value) THEN 0 ELSE value

generate_heart(g, amplitude, frequency, phase) ==
    Samples(g, LAMBDA i : HeartValue(amplitude, Theta(g, frequency, i, phase)))

generate_flower(g, amplitude, frequency, phase, petals) ==
    Samples(g, LAMBDA i :
        FMul(FMul(amplitude, Sin(petals * Theta(g, frequency, i, phase))),
             Cos(Theta(g, frequency, i, phase))))

generate_spiral(g, amplitude, frequency, phase) ==
    Samples(g, LAMBDA i :
        FMul(FDiv(FMul(amplitude, Theta(g, frequency, i, phase)), TwoPi),
             Sin(Theta(g, frequency, i, phase) * 3)))

\* The try block of generate_butterfly: a non-finite value becomes 0, and
\* the value is clamped to [-2, 2].
ButterflyValue(amplitude, t) ==
    LET value == FDiv(FMul(FMul(amplitude, Sin(t)),
                           Exp(Cos(t)) - 2 * Cos(4 * t)
                               - Pow(Sin(RoundDiv(t, 12)), 5)),
                      3 * Scale)
        finite == IF ~IsFinite(value) THEN 0 ELSE value
    IN  Max(-2 * Scale, Min(2 * Scale, finite))

generate_butterfly(g, amplitude, frequency, phase) ==
    Samples(g, LAMBDA i : ButterflyValue(amplitude, Theta(g, frequency, i, phase)))

generate_lissajous(g, amplitude, frequency, phase, ratio_a, ratio_b) ==
    Samples(g, LAMBDA i :
        FMul(FMul(amplitude, Sin(ratio_a * Theta(g, frequency, i, phase))),
             Cos(ratio_b * Theta(g, frequency, i, phase))))

generate_chaos(g, amplitude, frequency, phase) ==
    Samples(g, LAMBDA i :
        FMul(FMul(FMul(amplitude, Sin(Theta(g, frequency, i, phase))),
                  Sin(FMul(Sqrt(2 * Scale), Theta(g, frequency, i, phase)))),
             Sin(FMul(Sqrt(3 * Scale), Theta(g, frequency, i, phase)))))

generate_pulse(g, amplitude, frequency, phase, duty_cycle) ==
    Samples(g, LAMBDA i :
        IF Fraction(g, frequency, i, phase) < duty_cycle
        THEN amplitude ELSE FNeg(amplitude))

\* The random module: a linear congruential generator stands in for the
\* Mersenne Twister.  seed() sets the state from the seed alone; random()
\* steps the state and returns a float in [0, 1).
LcgModulus == 65537
LcgMultiplier == 75
LcgIncrement == 74

RandomSeed(seed) == seed % LcgModulus
RandomStep(state) == (state * LcgMultiplier + LcgIncrement) % LcgModulus
RandomValue(state) == (state * Scale) \div LcgModulus

RECURSIVE RandomStates(_, _)
RandomStates(state, n) ==
    IF n = 0 THEN <<>>
    ELSE <<RandomStep(state)>> \o RandomStates(RandomStep(state), n - 1)

\* generate_noise: the result, and the state the random module is left in
\* (the draw of the element whose round() raised is the last one made).
generate_noise(g, amplitude, seed) ==
    LET states == RandomStates(RandomSeed(seed), g.array_size)
        res == Samples(g, LAMBDA i :
                   FMul(amplitude, 2 * RandomValue(states[i + 1]) - Scale))
    IN  [raised |-> res.raised,
         data |-> res.data,
         random_state |-> IF res.raised = "" THEN states[g.array_size]
                          ELSE states[1]]

generate_exponential(g, amplitude, rate) ==
    Samples(g, LAMBDA i :
        FMul(amplitude, Exp(RoundDiv((-rate) * i, g.array_size))))

generate_logarithmic(g, amplitude, base) ==
    Samples(g, LAMBDA i :
        FDiv(FMul(amplitude, Log(Scale + RoundDiv(base * i, g.array_size))),
             Log(Scale + base)))

generate_gaussian(g, amplitude, center, sigma) ==
    Samples(g, LAMBDA i :
        FMul(amplitude,
             Exp(FMul(-(Scale \div 2),
                      Pow(FDiv(RoundDiv(i * Scale, g.array_size) - center, sigma),
                          2)))))

---------------------------------------------------------------------------
(* XYWaveformGenerator: the pattern generators.  A result is the exception *)
(* raised ("" for none) and the two lists x_vals, y_vals.                  *)
(*                                                                         *)
(* The classes and main of xy_waveform_generator.py are modelled statement *)
(* by statement.  The f-strings of XYHeaderGenerator.generate_header hold  *)
(* C braces that are not doubled (lines 351-354 and 437-439), which Python *)
(* rejects with a SyntaxError; CPython reports it when the file is         *)
(* compiled, the model where the statement stands, at the call of          *)
(* generate_header.                                                        *)

\* normalize_xy: both coordinates of one finite point.
normalize_xy(x, y, max_value) ==
    LET x_norm == PyRound((x + Scale) * max_value, 2 * Scale)
        y_norm == PyRound((y + Scale) * max_value, 2 * Scale)
    IN  <<Max(0, Min(max_value, x_norm)), Max(0, Min(max_value, y_norm))>>

\* The loop over range(self.array_size) that appends normalize_xy(X(i), Y(i))
\* to x_vals and y_vals; round() raises on a non-finite coordinate, x first.
XYSamples(g, X(_), Y(_)) ==
    LET idx == 1 .. g.array_size
        exc(k) == IF RoundRaises(X(k - 1), g.max_value) # ""
                  THEN RoundRaises(X(k - 1), g.max_value)
                  ELSE RoundRaises(Y(k - 1), g.max_value)
        bad == { k \in idx : exc(k) # "" }
        first == CHOOSE k \in bad : \A j \in bad : k <= j
    IN  IF bad = {}
        THEN [raised |-> "",
              x |-> [k \in idx |-> normalize_xy(X(k - 1), Y(k - 1), g.max_value)[1]],
              y |-> [k \in idx |-> normalize_xy(X(k - 1), Y(k - 1), g.max_value)[2]]]
        ELSE [raised |-> exc(first), x |-> <<>>, y |-> <<>>]

\* turns * math.pi * i / self.array_size + phase, for turns half-turns
XYTheta(g, halfturns, i, phase) ==
    RoundDiv(halfturns * Pi * i, g.array_size) + phase

xy_generate_circle_sine_first(g, radius, phase) ==
    XYSamples(g,
        LAMBDA i : FMul(radius, Sin(XYTheta(g, 2, i, phase))),
        LAMBDA i : FMul(radius, Cos(XYTheta(g, 2, i, phase))))

xy_generate_circle(g, radius, phase) ==
    XYSamples(g,
        LAMBDA i : FMul(radius, Cos(XYTheta(g, 2, i, phase))),
        LAMBDA i : FMul(radius, Sin(XYTheta(g, 2, i, phase))))

xy_generate_ellipse(g, a, b, phase) ==
    XYSamples(g,
        LAMBDA i : FMul(a, Cos(XYTheta(g, 2, i, phase))),
        LAMBDA i : FMul(b, Sin(XYTheta(g, 2, i, phase))))

xy_generate_lissajous(g, freq_x, freq_y, phase, amplitude) ==
    XYSamples(g,
        LAMBDA i : FMul(amplitude, Sin(freq_x * XYTheta(g, 2, i, 0) + phase)),
        LAMBDA i : FMul(amplitude, Sin(freq_y * XYTheta(g, 2, i, 0))))

xy_generate_lissajous_cos(g, freq_x, freq_y, phase, amplitude) ==
    XYSamples(g,
        LAMBDA i : FMul(amplitude, Cos(freq_x * XYTheta(g, 2, i, 0) + phase)),
        LAMBDA i : FMul(amplitude, Sin(freq_y * XYTheta(g, 2, i, 0))))

xy_generate_heart(g, scale, phase) ==
    XYSamples(g,
        LAMBDA i : FMul(scale * 16, Pow(Sin(XYTheta(g, 2, i, phase)), 3)),
        LAMBDA i : FMul(scale,
                        13 * Cos(XYTheta(g, 2, i, phase))
                        - 5 * Cos(2 * XYTheta(g, 2, i, phase))
                        - 2 * Cos(3 * XYTheta(g, 2, i, phase))
                        - Cos(4 * XYTheta(g, 2, i, phase))))

\* r = scale * cos(k * t); x = r * cos(t); y = r * sin(t)
PolarX(scale, k_times_t, t) == FMul(FMul(scale, Cos(k_times_t)), Cos(t))
PolarY(scale, k_times_t, t) == FMul(FMul(scale, Cos(k_times_t)), Sin(t))

xy_generate_rose(g, petals, scale, phase) ==
    XYSamples(g,
        LAMBDA i : PolarX(scale, petals * XYTheta(g, 2, i, phase),
                          XYTheta(g, 2, i, phase)),
        LAMBDA i : PolarY(scale, petals * XYTheta(g, 2, i, phase),
                          XYTheta(g, 2, i, phase)))

\* math.exp(math.cos(t)) - 2*math.cos(4*t) - math.sin(t/12)**5
TempleFay(t) == Exp(Cos(t)) - 2 * Cos(4 * t) - Pow(Sin(RoundDiv(t, 12)), 5)

xy_generate_butterfly(g, scale, phase) ==
    XYSamples(g,
        LAMBDA i : Max(-Scale, Min(Scale,
            FMul(FMul(scale, Sin(XYTheta(g, 2, i, phase))),
                 TempleFay(XYTheta(g, 2, i, phase))))),
        LAMBDA i : Max(-Scale, Min(Scale,
            FMul(FMul(scale, Cos(XYTheta(g, 2, i, phase))),
                 TempleFay(XYTheta(g, 2, i, phase))))))

\* denominator = 1 + math.sin(t)**2
Lemniscate(t) == Scale + Pow(Sin(t), 2)

xy_generate_infinity(g, scale, phase) ==
    XYSamples(g,
        LAMBDA i : FDiv(FMul(scale, Cos(XYTheta(g, 2, i, phase))),
                        Lemniscate(XYTheta(g, 2, i, phase))),
        LAMBDA i : FDiv(FMul(FMul(scale, Sin(XYTheta(g, 2, i, phase))),
                             Cos(XYTheta(g, 2, i, phase))),
                        Lemniscate(XYTheta(g, 2, i, phase))))

\* t = turns * 2 * math.pi * i / self.array_size + phase
\* r = scale * t / (turns * 2 * math.pi)
ArchimedesT(g, turns, i, phase) ==
    RoundDiv(RoundDiv(turns * TwoPi, Scale) * i, g.array_size) + phase
ArchimedesR(turns, scale, t) == FDiv(FMul(scale, t), RoundDiv(turns * TwoPi, Scale))

xy_generate_spiral_archimedes(g, turns, scale, phase) ==
    XYSamples(g,
        LAMBDA i : FMul(ArchimedesR(turns, scale, ArchimedesT(g, turns, i, phase)),
                        Cos(ArchimedesT(g, turns, i, phase))),
        LAMBDA i : FMul(ArchimedesR(turns, scale, ArchimedesT(g, turns, i, phase)),
                        Sin(ArchimedesT(g, turns, i, phase))))

\* r = min(scale * math.exp(growth * t), 1.0)
LogSpiralR(scale, growth, t) == Min(FMul(scale, Exp(FMul(growth, t))), Scale)

xy_generate_spiral_logarithmic(g, scale, growth, phase) ==
    XYSamples(g,
        LAMBDA i : FMul(LogSpiralR(scale, growth, XYTheta(g, 4, i, phase)),
                        Cos(XYTheta(g, 4, i, phase))),
        LAMBDA i : FMul(LogSpiralR(scale, growth, XYTheta(g, 4, i, phase)),
                        Sin(XYTheta(g, 4, i, phase))))

\* R, r, d are whole numbers; (R - r) * t / r is the inner angle.
xy_generate_hypotrochoid(g, R, r, d, scale, phase) ==
    XYSamples(g,
        LAMBDA i : FMul(scale,
            (R - r) * Cos(XYTheta(g, 2, i, phase))
            + d * Cos(RoundDiv((R - r) * XYTheta(g, 2, i, phase), r))),
        LAMBDA i : FMul(scale,
            (R - r) * Sin(XYTheta(g, 2, i, phase))
            - d * Sin(RoundDiv((R - r) * XYTheta(g, 2, i, phase), r))))

xy_generate_rhodonea(g, k, scale, phase) ==
    XYSamples(g,
        LAMBDA i : PolarX(scale, FMul(k, XYTheta(g, 2, i, phase)),
                          XYTheta(g, 2, i, phase)),
        LAMBDA i : PolarY(scale, FMul(k, XYTheta(g, 2, i, phase)),
                          XYTheta(g, 2, i, phase)))

\* x = scale * radius * (t - sin t), then (x / (4 * pi * radius)) * 2 - 1
\* y = scale * radius * (1 - cos t), then (y / (2 * radius)) - 1
CycloidX(radius, scale, t) ==
    FDiv(FMul(FMul(scale, radius), t - Sin(t)), FMul(2 * TwoPi, radius)) * 2 - Scale
CycloidY(radius, scale, t) ==
    FDiv(FMul(FMul(scale, radius), Scale - Cos(t)), 2 * radius) - Scale

xy_generate_cycloid(g, radius, scale, phase) ==
    XYSamples(g,
        LAMBDA i : CycloidX(radius, scale, XYTheta(g, 4, i, phase)),
        LAMBDA i : CycloidY(radius, scale, XYTheta(g, 4, i, phase)))

xy_generate_astroid(g, scale, phase) ==
    XYSamples(g,
        LAMBDA i : FMul(scale, Pow(Cos(XYTheta(g, 2, i, phase)), 3)),
        LAMBDA i : FMul(scale, Pow(Sin(XYTheta(g, 2, i, phase)), 3)))

---------------------------------------------------------------------------
(* The catalogs of main: available_waveforms and available_patterns, keys  *)
(* in insertion order, and the call each entry's lambda makes.             *)

WaveNames ==
    <<"sine", "triangle", "square", "sawtooth", "ramp", "heart", "flower",
      "spiral", "butterfly", "lissajous", "chaos", "pulse", "noise",
      "exponential", "logarithmic", "gaussian">>

PatternNames ==
    <<"circle", "ellipse", "lissajous_3_2", "lissajous_5_4", "lissajous_7_5",
      "lissajous_cos", "heart", "rose_3", "rose_5", "rose_8", "butterfly",
      "infinity", "spiral_archimedes", "spiral_log", "hypotrochoid",
      "rhodonea", "cycloid", "astroid">>

Range(seq) == { seq[i] : i \in DOMAIN seq }

AvailableNames(p) == IF p = "wave" THEN WaveNames ELSE PatternNames

\* available_waveforms[name][1](): the list and the random state left.
WithState(res, state) ==
    [raised |-> res.raised, data |-> res.data, random_state |-> state]

CallWaveform(name, g, a, state) ==
    CASE name = "sine" ->
            WithState(generate_sine(g, a.amplitude, a.frequency, 0), state)
      [] name = "triangle" ->
            WithState(generate_triangle(g, a.amplitude, a.frequency, 0), state)
      [] name = "square" ->
            WithState(generate_square(g, a.amplitude, a.frequency, 0), state)
      [] name = "sawtooth" ->
            WithState(generate_sawtooth(g, a.amplitude, a.frequency, 0), state)
      [] name = "ramp" ->
            WithState(generate_linear_ramp(g), state)
      [] name = "heart" ->
            WithState(generate_heart(g, a.amplitude, a.frequency, 0), state)
      [] name = "flower" ->
            WithState(generate_flower(g, a.amplitude, a.frequency, 0, 5), state)
      [] name = "spiral" ->
            WithState(generate_spiral(g, a.amplitude, a.frequency, 0), state)
      [] name = "butterfly" ->
            WithState(generate_butterfly(g, a.amplitude, a.frequency, 0), state)
      [] name = "lissajous" ->
            WithState(generate_lissajous(g, a.amplitude, a.frequency, 0, 3, 2), state)
      [] name = "chaos" ->
            WithState(generate_chaos(g, a.amplitude, a.frequency, 0), state)
      [] name = "pulse" ->
            WithState(generate_pulse(g, a.amplitude, a.frequency, 0, Real(1, 10)),
                      state)
      [] name = "noise" ->
            generate_noise(g, a.amplitude, DefaultSeed)
      [] name = "exponential" ->
            WithState(generate_exponential(g, a.amplitude, 2 * Scale), state)
      [] name = "logarithmic" ->
            WithState(generate_logarithmic(g, a.amplitude, 10 * Scale), state)
      [] name = "gaussian" ->
            WithState(generate_gaussian(g, a.amplitude, Real(1, 2), Real(2, 10)),
                      state)

\* available_patterns[name][1](): the two lists.
CallPattern(name, g) ==
    CASE name = "circle" -> xy_generate_circle(g, Real(8, 10), 0)
      [] name = "ellipse" -> xy_generate_ellipse(g, Real(8, 10), Real(6, 10), 0)
      [] name = "lissajous_3_2" -> xy_generate_lissajous(g, 3, 2, 0, Real(8, 10))
      [] name = "lissajous_5_4" -> xy_generate_lissajous(g, 5, 4, 0, Real(8, 10))
      [] name = "lissajous_7_5" -> xy_generate_lissajous(g, 7, 5, 0, Real(8, 10))
      [] name = "lissajous_cos" ->
            xy_generate_lissajous_cos(g, 3, 2, 0, Real(8, 10))
      [] name = "heart" -> xy_generate_heart(g, Real(1, 10), 0)
      [] name = "rose_3" -> xy_generate_rose(g, 3, Real(8, 10), 0)
      [] name = "rose_5" -> xy_generate_rose(g, 5, Real(8, 10), 0)
      [] name = "rose_8" -> xy_generate_rose(g, 8, Real(8, 10), 0)
      [] name = "butterfly" -> xy_generate_butterfly(g, Real(3, 10), 0)
      [] name = "infinity" -> xy_generate_infinity(g, Real(8, 10), 0)
      [] name = "spiral_archimedes" ->
            xy_generate_spiral_archimedes(g, 3 * Scale, Real(8, 10), 0)
      [] name = "spiral_log" ->
            xy_generate_spiral_logarithmic(g, Real(1, 10), Real(2, 10), 0)
      [] name = "hypotrochoid" ->
            xy_generate_hypotrochoid(g, 5, 3, 5, Real(15, 100), 0)
      [] name = "rhodonea" -> xy_generate_rhodonea(g, Real(25, 10), Real(8, 10), 0)
      [] name = "cycloid" -> xy_generate_cycloid(g, Real(2, 10), Scale, 0)
      [] name = "astroid" -> xy_generate_astroid(g, Real(8, 10), 0)

\* One entry of the waveforms / patterns dict.  A single-channel entry
\* holds its list in data; an XY entry holds x_data and y_data.
WaveEntry(name, res) == [name |-> name, data |-> res.data, x |-> <<>>, y |-> <<>>]
PatternEntry(name, res) == [name |-> name, data |-> <<>>, x |-> res.x, y |-> res.y]

---------------------------------------------------------------------------
(* The selection string.  args.waves / args.patterns is held as the list   *)
(* split(",") gives; each item is a list of atoms, " " for white space and *)
(* an identifier for a run of other characters.                            *)

RECURSIVE StripLeft(_)
StripLeft(item) ==
    IF item # <<>> /\ Head(item) = " " THEN StripLeft(Tail(item)) ELSE item

RECURSIVE StripRight(_)
StripRight(item) ==
    IF item # <<>> /\ item[Len(item)] = " "
    THEN StripRight(SubSeq(item, 1, Len(item) - 1)) ELSE item

\* w.strip(), as the identifier left ("" when nothing is).
Strip(item) ==
    LET rest == StripRight(StripLeft(item))
    IN  IF rest = <<>> THEN "" ELSE rest[1]

\* [w.strip() for w in args.waves.split(",")]
StrippedList(selection) == [i \in DOMAIN selection |-> Strip(selection[i])]

\* The keys of {name: available[name] for name in wave_list if name in
\* available}: the registered names, each at its first occurrence.
RECURSIVE SelectedKeys(_, _)
SelectedKeys(wave_list, available) ==
    IF wave_list = <<>> THEN <<>>
    ELSE LET front == SelectedKeys(SubSeq(wave_list, 1, Len(wave_list) - 1),
                                   available)
             name == wave_list[Len(wave_list)]
         IN  IF name \in Range(available) /\ name \notin Range(front)
             THEN Append(front, name) ELSE front

\* set(wave_list) - set(available.keys())
InvalidIdentifiers_none(wave_list, available) == {}

InvalidIdentifiers_first(wave_list, available) ==
    LET bad == { i \in DOMAIN wave_list : wave_list[i] \notin Range(available) }
    IN  IF bad = {} THEN {}
        ELSE { wave_list[CHOOSE i \in bad : \A j \in bad : i <= j] }

InvalidIdentifiers(wave_list, available) == Range(wave_list) \ Range(available)

\* The orders in which ', '.join(invalid) may name the members of a set.
Orderings(set) ==
    { seq \in [1 .. Cardinality(set) -> set] : Range(seq) = set }

IsAll(selection) == selection = << <<"all">> >>

---------------------------------------------------------------------------
(* main, one action per step.  pc runs "setup" (single-channel only),      *)
(* "construct", "list_templates" (single-channel only), "list", "select",  *)
(* "generate", "render", "write", "done".                                  *)

NoText == [kind |-> "none", config |-> NoObject, entries |-> <<>>]
NoFile == <<>>

\* fmt, acc, out, det, tab outside their specifications.
FormatIdle == [phase |-> "idle"]
AccessorIdle == [phase |-> "idle"]
OutputIdle == [phase |-> "idle"]
CallsIdle == [phase |-> "idle"]
TableIdle == [phase |-> "idle"]

\* q outside specification QuantSpec.
QuantIdle == [phase |-> "idle", value |-> 0, bits |-> 0, max_value |-> 0,
              raised |-> "", code |-> 0, xy |-> <<0, 0>>]

\* No function is exercised on its own.
AuxIdle ==
    /\ q = QuantIdle
    /\ fmt = FormatIdle
    /\ acc = AccessorIdle
    /\ out = OutputIdle
    /\ det = CallsIdle
    /\ tab = TableIdle

\* Bit depths drawn: the small ones, both sides of each storage-type
\* boundary TLC's integers reach, and the first depth past the last type.
BitsInputs ==
    ((0 .. MaxBits)
        \cap ({0, 1, 2} \cup {Uint8Bits, Uint8Bits + 1, Uint16Bits, Uint16Bits + 1}))
    \cup {MaxSupportedBits + 1}

Amplitudes == {Scale, 2 * Scale, NaN, Inf}
Frequencies == {Scale, 2 * Scale}

RawItems(p) ==
    IF p = "wave"
    THEN { <<>>, <<"sine">>, <<" ", "ramp">>, <<"bogus">>, <<" ", "nope", " ">> }
    ELSE { <<>>, <<"circle">>, <<" ", "heart">>, <<"bogus">>, <<" ", "nope", " ">> }

Selections(p) ==
    { << <<"all">> >> }
    \cup UNION { [1 .. n -> RawItems(p)] : n \in 1 .. MaxSelection }

ArgsOf(p) ==
    IF p = "wave"
    THEN [bits : BitsInputs, size : 1 .. MaxSize, selection : Selections(p),
          amplitude : Amplitudes, frequency : Frequencies,
          setup : BOOLEAN, list_templates : BOOLEAN, list : BOOLEAN]
    ELSE [bits : BitsInputs, size : 1 .. MaxSize, selection : Selections(p),
          amplitude : {Scale}, frequency : {Scale},
          setup : {FALSE}, list_templates : {FALSE}, list : BOOLEAN]

Init ==
    /\ prog \in {"wave", "xy"}
    /\ args \in ArgsOf(prog)
    /\ pc = IF prog = "wave" THEN "setup" ELSE "construct"
    /\ generator = NoObject
    /\ dirs = {}
    /\ selected = <<>>
    /\ waveforms = <<>>
    /\ invoked = <<>>
    /\ random_state = 0
    /\ header_content = NoText
    /\ file = NoFile
    /\ reported = <<>>
    /\ error = ""
    /\ status = "running"
    /\ AuxIdle

\* return code, from main.
Return(code) ==
    /\ pc' = "done"
    /\ status' = code

\* An exception no handler of main catches: the interpreter prints the
\* traceback and the process ends with exit status 1.
Uncaught ==
    /\ pc' = "done"
    /\ status' = "uncaught exception"

\* A handler of main prints the error and returns 1.
Fail(kind) ==
    /\ Return("returned 1")
    /\ error' = kind

\* if args.setup: setup_project_structure(); return 0.  Otherwise jinja2
\* is imported; except ImportError: return 1.
Setup ==
    /\ pc = "setup"
    /\ IF args.setup
       THEN /\ dirs' = dirs \cup {"templates", "output", "examples"}
            /\ Return("returned 0")
            /\ UNCHANGED error
       ELSE /\ \E imported \in BOOLEAN :
                  IF imported THEN pc' = "construct" /\ UNCHANGED <<status, error>>
                  ELSE Fail("ImportError")
            /\ UNCHANGED dirs
    /\ UNCHANGED <<prog, args, generator, selected, waveforms, invoked,
                   random_state, header_content, file, reported, aux_vars>>

\* The try block that builds the generator and the header generator (which
\* makes the template directory); except ValueError: return 1.
Construct_returns_success ==
    /\ pc = "construct"
    /\ LET made == NewGenerator(args.bits, args.size)
       IN  IF made.raised = "ValueError"
           THEN /\ Return("returned 0")
                /\ UNCHANGED <<generator, dirs, error>>
           ELSE /\ generator' = made.obj
                /\ dirs' = IF prog = "wave" THEN dirs \cup {"templates"} ELSE dirs
                /\ pc' = IF prog = "wave" THEN "list_templates" ELSE "list"
                /\ UNCHANGED <<status, error>>
    /\ UNCHANGED <<prog, args, selected, waveforms, invoked, random_state,
                   header_content, file, reported, aux_vars>>

Construct ==
    /\ pc = "construct"
    /\ LET made == NewGenerator(args.bits, args.size)
       IN  IF made.raised = "ValueError"
           THEN /\ Fail("UnsupportedBitDepth")
                /\ UNCHANGED <<generator, dirs>>
           ELSE /\ generator' = made.obj
                /\ dirs' = IF prog = "wave" THEN dirs \cup {"templates"} ELSE dirs
                /\ pc' = IF prog = "wave" THEN "list_templates" ELSE "list"
                /\ UNCHANGED <<status, error>>
    /\ UNCHANGED <<prog, args, selected, waveforms, invoked, random_state,
                   header_content, file, reported, aux_vars>>

\* if args.list_templates: ...; return 0
ListTemplates ==
    /\ pc = "list_templates"
    /\ IF args.list_templates
       THEN Return("returned 0")
       ELSE pc' = "list" /\ UNCHANGED status
    /\ UNCHANGED error
    /\ UNCHANGED <<prog, args, generator, dirs, selected, waveforms, invoked,
                   random_state, header_content, file, reported, aux_vars>>

\* if args.list_waves / args.list_patterns: ...; return 0
List ==
    /\ pc = "list"
    /\ IF args.list
       THEN Return("returned 0")
       ELSE pc' = "select" /\ UNCHANGED status
    /\ UNCHANGED error
    /\ UNCHANGED <<prog, args, generator, dirs, selected, waveforms, invoked,
                   random_state, header_content, file, reported, aux_vars>>

\* The selection: "all", or the registered names of the list; unknown
\* names are reported in one message and main returns 1; an empty
\* selection returns 1.
Select ==
    /\ pc = "select"
    /\ LET available == AvailableNames(prog)
           wave_list == StrippedList(args.selection)
           invalid == InvalidIdentifiers(wave_list, available)
           keys == IF IsAll(args.selection) THEN available
                   ELSE SelectedKeys(wave_list, available)
       IN  IF ~IsAll(args.selection) /\ invalid # {}
           THEN /\ reported' \in Orderings(invalid)
                /\ selected' = keys
                /\ Fail("UnknownIdentifier")
           ELSE IF keys = <<>>
           THEN /\ selected' = keys
                /\ Fail("EmptySelection")
                /\ UNCHANGED reported
           ELSE /\ selected' = keys
                /\ pc' = "generate"
                /\ UNCHANGED <<reported, status, error>>
    /\ UNCHANGED <<prog, args, generator, dirs, waveforms, invoked,
                   random_state, header_content, file, aux_vars>>

\* One pass of the generation loop: call the next selected entry's
\* function and store what it returns.  An exception it raises is caught
\* nowhere.
Generate_writes_each_entry ==
    /\ pc = "generate"
    /\ LET name == selected[Len(waveforms) + 1]
           res == IF prog = "wave"
                  THEN CallWaveform(name, generator, args, random_state)
                  ELSE CallPattern(name, generator)
       IN  /\ invoked' = Append(invoked, name)
           /\ random_state' = IF prog = "wave" THEN res.random_state
                              ELSE random_state
           /\ IF res.raised # ""
              THEN /\ Uncaught
                   /\ error' = res.raised
                   /\ UNCHANGED <<waveforms, file>>
              ELSE /\ waveforms' = Append(waveforms,
                                      IF prog = "wave" THEN WaveEntry(name, res)
                                      ELSE PatternEntry(name, res))
                   /\ file' = <<[kind |-> "partial", config |-> generator,
                                 entries |-> waveforms']>>
                   /\ pc' = IF Len(waveforms) + 1 = Len(selected)
                            THEN "render" ELSE "generate"
                   /\ UNCHANGED <<status, error>>
    /\ UNCHANGED <<prog, args, generator, dirs, selected, header_content,
                   reported, aux_vars>>

Generate ==
    /\ pc = "generate"
    /\ LET name == selected[Len(waveforms) + 1]
           res == IF prog = "wave"
                  THEN CallWaveform(name, generator, args, random_state)
                  ELSE CallPattern(name, generator)
       IN  /\ invoked' = Append(invoked, name)
           /\ random_state' = IF prog = "wave" THEN res.random_state
                              ELSE random_state
           /\ IF res.raised # ""
              THEN /\ Uncaught
                   /\ error' = res.raised
                   /\ UNCHANGED waveforms
              ELSE /\ waveforms' = Append(waveforms,
                                      IF prog = "wave" THEN WaveEntry(name, res)
                                      ELSE PatternEntry(name, res))
                   /\ pc' = IF Len(waveforms) + 1 = Len(selected)
                            THEN "render" ELSE "generate"
                   /\ UNCHANGED <<status, error>>
    /\ UNCHANGED <<prog, args, generator, dirs, selected, header_content, file,
                   reported, aux_vars>>

\* The structured document handed to the template, or built into text.
Document ==
    [kind |-> IF prog = "wave" THEN "rendered template" ELSE "xy header",
     config |-> generator,
     entries |-> waveforms]

\* The pieces of an f-string literal, in source order: literal text, the
\* escapes "{{" and "}}", and a replacement field "{" code "}".
Text(t) == [kind |-> "text", text |-> t]
DoubledOpen == [kind |-> "{{", text |-> "{"]
DoubledClose == [kind |-> "}}", text |-> "}"]
Open == [kind |-> "{", text |-> ""]
Close == [kind |-> "}", text |-> ""]
Code(c) == [kind |-> "code", text |-> c]

\* The code Python accepts as the expression of a replacement field, among
\* the pieces of code the two literals of generate_header hold.
Expressions ==
    {"filename", "len(patterns)", "self.gen.bits", "self.gen.array_size",
     "self.gen.max_value", "self.gen.center", "self.gen.data_type",
     "chr(10).join(enum_values)", "chr(10).join(x pointers)",
     "chr(10).join(y pointers)", "chr(10).join(names)"}

\* How Python reads an f-string literal: doubled braces give one brace, a
\* single "{" opens a replacement field that must hold an expression and
\* be closed by "}"; anything else is a SyntaxError.
RECURSIVE FormatFString(_, _)
FormatFString(literal, env) ==
    IF literal = <<>> THEN [raised |-> "", parts |-> <<>>]
    ELSE LET piece == Head(literal)
         IN  IF piece.kind \in {"text", "{{", "}}"}
             THEN LET rest == FormatFString(Tail(literal), env)
                  IN  [raised |-> rest.raised,
                       parts |-> IF rest.raised = ""
                                 THEN <<piece.text>> \o rest.parts ELSE <<>>]
             ELSE IF /\ piece.kind = "{"
                     /\ Len(literal) >= 3
                     /\ literal[2].kind = "code"
                     /\ literal[2].text \in Expressions
                     /\ literal[3].kind = "}"
             THEN LET rest == FormatFString(SubSeq(literal, 4, Len(literal)), env)
                  IN  [raised |-> rest.raised,
                       parts |-> IF rest.raised = ""
                                 THEN <<env[literal[2].text]>> \o rest.parts
                                 ELSE <<>>]
             ELSE [raised |-> "SyntaxError", parts |-> <<>>]

\* The first literal of generate_header (file comment, guards, constants
\* and the status enumeration), brace by brace.
HeaderLiteral ==
    << Text("/** @file "), Open, Code("filename"), Close,
       Text(" This file contains "), Open, Code("len(patterns)"), Close,
       Text(" XY pattern pairs for "), Open, Code("self.gen.bits"), Close,
       Text("-bit DACs. #include "), Open, Code("filename"), Close,
       Text(" for(int i = 0; i < XY_ARRAY_SIZE; i++) "), DoubledOpen,
       Text(" dac1_output(heart_x[i]); dac2_output(heart_y[i]); "),
       DoubledClose,
       Text(" #define XY_ARRAY_SIZE "), Open, Code("self.gen.array_size"), Close,
       Text(" #define XY_BITS "), Open, Code("self.gen.bits"), Close,
       Text(" #define XY_MAX_VALUE "), Open, Code("self.gen.max_value"), Close,
       Text(" #define XY_CENTER "), Open, Code("self.gen.center"), Close,
       Text(" typedef enum "), Open,
       Code("XY_OK = 0, XY_NULL_POINTER_ERROR,"), Close,
       Text(" xy_status_t; // XY PATTERN DATA") >>

\* The second literal (enumeration, tables, get_xy_point and
\* output_xy_pattern, trailer), brace by brace.
UtilitiesLiteral ==
    << Text("typedef enum "), DoubledOpen,
       Open, Code("chr(10).join(enum_values)"), Close,
       DoubledClose, Text(" xy_pattern_type_t; typedef struct "), DoubledOpen,
       Open, Code("self.gen.data_type"), Close, Text(" x; "),
       Open, Code("self.gen.data_type"), Close, Text(" y; "),
       DoubledClose, Text(" xy_point_t; xy_patterns_x[XY_PATTERN_COUNT] = "),
       DoubledOpen, Open, Code("chr(10).join(x pointers)"), Close, DoubledClose,
       Text("; xy_patterns_y[XY_PATTERN_COUNT] = "),
       DoubledOpen, Open, Code("chr(10).join(y pointers)"), Close, DoubledClose,
       Text("; xy_pattern_names[XY_PATTERN_COUNT] = "),
       DoubledOpen, Open, Code("chr(10).join(names)"), Close, DoubledClose,
       Text("; get_xy_point(pattern, index) "), DoubledOpen,
       Text(" xy_point_t point = "), DoubledOpen,
       Text("XY_CENTER, XY_CENTER"), DoubledClose,
       Text("; if (pattern < XY_PATTERN_COUNT && index < XY_ARRAY_SIZE) "),
       DoubledOpen, Text(" point.x = ...; point.y = ...; "), DoubledClose,
       Text(" return point; "), DoubledClose,
       Text(" output_xy_pattern(pattern, dac_x_func, dac_y_func, delay_us) "),
       DoubledOpen,
       Text(" if (dac_x_func == NULL || dac_y_func == NULL) "), Open,
       Code("return XY_NULL_POINTER_ERROR;"), Close,
       Text(" for (uint16_t i = 0; i < XY_ARRAY_SIZE; i++) "), DoubledOpen,
       Text(" point = get_xy_point(pattern, i); dac_x_func(point.x); dac_y_func(point.y); "),
       DoubledClose, Text(" return XY_OK; "), DoubledClose,
       Text(" #endif /* Bits: "), Open, Code("self.gen.bits"), Close,
       Text(" Patterns: "), Open, Code("len(patterns)"), Close, Text(" */") >>

\* enum_values: "XY_<NAME> = i," per pattern in dict order, then the count.
enum_values(pattern_names) ==
    [i \in 1 .. Len(pattern_names) |->
        [name |-> pattern_names[i], value |-> i - 1]]
    \o << [name |-> "PATTERN_COUNT", value |-> Len(pattern_names)] >>

\* The table of array pointers "<name>_x," / "<name>_y," per pattern.
pointer_table(pattern_names, axis) ==
    [i \in DOMAIN pattern_names |-> [array |-> pattern_names[i], axis |-> axis]]

\* The table of display names: name.replace("_", " ").title() per pattern.
display_names(pattern_names) ==
    [i \in DOMAIN pattern_names |-> [title_of |-> pattern_names[i]]]

\* The values of the replacement fields.
FieldValues(patterns, g) ==
    LET pattern_names == [i \in DOMAIN patterns |-> patterns[i].name]
    IN  [e \in Expressions |->
            CASE e = "filename" -> "xy_patterns.h"
              [] e = "len(patterns)" -> Len(patterns)
              [] e = "self.gen.bits" -> g.bits
              [] e = "self.gen.array_size" -> g.array_size
              [] e = "self.gen.max_value" -> g.max_value
              [] e = "self.gen.center" -> g.center
              [] e = "self.gen.data_type" -> g.data_type
              [] e = "chr(10).join(enum_values)" -> enum_values(pattern_names)
              [] e = "chr(10).join(x pointers)" -> pointer_table(pattern_names, "x")
              [] e = "chr(10).join(y pointers)" -> pointer_table(pattern_names, "y")
              [] OTHER -> display_names(pattern_names)]

\* XYHeaderGenerator.generate_header: the first literal, one block per
\* pattern, the second literal.
xy_generate_header(patterns, g) ==
    LET env == FieldValues(patterns, g)
        head == FormatFString(HeaderLiteral, env)
        utilities == FormatFString(UtilitiesLiteral, env)
    IN  IF head.raised # "" THEN [raised |-> head.raised, text |-> NoText]
        ELSE IF utilities.raised # ""
        THEN [raised |-> utilities.raised, text |-> NoText]
        ELSE [raised |-> "",
              text |-> [kind |-> "xy header", config |-> g, entries |-> patterns]]

\* header_gen.generate_header(...).  The single-channel program renders an
\* external template: it may be missing (TemplateNotFound) or fail, and
\* main returns 1.  The XY program builds the text itself, outside any try
\* block.
GenerateHeader ==
    /\ pc = "render"
    /\ IF prog = "wave"
       THEN \E outcome \in {"ok", "TemplateNotFound", "Exception"} :
               IF outcome = "ok"
               THEN /\ header_content' = Document
                    /\ pc' = "write"
                    /\ UNCHANGED <<status, error>>
               ELSE /\ Fail(outcome)
                    /\ UNCHANGED header_content
       ELSE LET res == xy_generate_header(waveforms, generator)
            IN  IF res.raised # ""
                THEN /\ Uncaught
                     /\ error' = res.raised
                     /\ UNCHANGED header_content
                ELSE /\ header_content' = res.text
                     /\ pc' = "write"
                     /\ UNCHANGED <<status, error>>
    /\ UNCHANGED <<prog, args, generator, dirs, selected, waveforms, invoked,
                   random_state, file, reported, aux_vars>>

\* The output directory is made (single-channel program), then the file
\* is opened and written in one go; IOError: return 1.  A failed open
\* leaves no file, a failed write leaves it created and empty.
WriteFile ==
    /\ pc = "write"
    /\ dirs' = IF prog = "wave" THEN dirs \cup {"output"} ELSE dirs
    /\ \E outcome \in {"ok", "open failed", "write failed"} :
          IF outcome = "ok"
          THEN /\ file' = <<header_content>>
               /\ Return("returned 0")
               /\ UNCHANGED error
          ELSE /\ file' = IF outcome = "open failed" THEN file ELSE <<NoText>>
               /\ Fail("IOError")
    /\ UNCHANGED <<prog, args, generator, selected, waveforms, invoked,
                   random_state, header_content, reported, aux_vars>>

Next ==
    \/ Setup
    \/ Construct
    \/ ListTemplates
    \/ List
    \/ Select
    \/ Generate
    \/ GenerateHeader
    \/ WriteFile

Spec == Init /\ [][Next]_vars

---------------------------------------------------------------------------
(* Specification QuantSpec: the quantizer applied to one drawn value:      *)
(* normalize to the value, normalize_xy to the point (value, -value).      *)
(* The value is any float a caller can pass: the finite ones, the two      *)
(* infinities and NaN.  round() raises on a candidate that is not finite,  *)
(* and nothing in normalize or normalize_xy catches it.                    *)

QuantValues ==
    { k * (Scale \div 4) : k \in (-4 * MaxMagnitude) .. (4 * MaxMagnitude) }

MainIdle ==
    /\ prog = "none"
    /\ args = <<>>
    /\ pc = "idle"
    /\ generator = NoObject
    /\ dirs = {}
    /\ selected = <<>>
    /\ waveforms = <<>>
    /\ invoked = <<>>
    /\ random_state = 0
    /\ header_content = NoText
    /\ file = NoFile
    /\ reported = <<>>
    /\ error = ""
    /\ status = "idle"

QuantInit ==
    /\ MainIdle
    /\ fmt = FormatIdle /\ acc = AccessorIdle /\ out = OutputIdle
    /\ det = CallsIdle /\ tab = TableIdle
    /\ \E v \in QuantValues \cup {NegInf, Inf, NaN}, b \in 0 .. MaxBits :
          q = [phase |-> "drawn", value |-> v, bits |-> b,
               max_value |-> NewGenerator(b, 1).obj.max_value,
               raised |-> "", code |-> 0, xy |-> <<0, 0>>]

Quantize ==
    /\ q.phase = "drawn"
    /\ LET raised == RoundRaises(q.value, q.max_value)
       IN  IF raised # ""
           THEN q' = [q EXCEPT !.phase = "raised", !.raised = raised]
           ELSE q' = [q EXCEPT !.phase = "quantized",
                               !.code = normalize(q.value, q.max_value),
                               !.xy = normalize_xy(q.value, -q.value, q.max_value)]
    /\ UNCHANGED <<main_vars, fmt, acc, out, det, tab>>

QuantNext == Quantize

QuantSpec == QuantInit /\ [][QuantNext]_vars

---------------------------------------------------------------------------
(* XYHeaderGenerator.format_xy_arrays.  A line is the sequence of its      *)
(* pieces; a data row is held character by character.                      *)

DigitChars == <<"0", "1", "2", "3", "4", "5", "6", "7", "8", "9">>

\* str(n), n >= 0
RECURSIVE Str(_)
Str(n) ==
    IF n < 10 THEN <<DigitChars[n + 1]>>
    ELSE Str(n \div 10) \o <<DigitChars[(n % 10) + 1]>>

\* f"{val:>{width}}"
RightAlign(chars, width) == [i \in 1 .. width - Len(chars) |-> " "] \o chars

\* separator.join(items)
RECURSIVE Join(_, _)
Join(separator, items) ==
    IF items = <<>> THEN <<>>
    ELSE IF Len(items) = 1 THEN items[1]
    ELSE items[1] \o separator \o Join(separator, Tail(items))

\* One pass of the loop "for i in range(0, len(data), 16)".
FormatRow_comma_after_full_row(data, i, max_value) ==
    LET line_data == SubSeq(data, i + 1, Min(i + RowLength, Len(data)))
        formatted_values ==
            [k \in DOMAIN line_data |->
                RightAlign(Str(line_data[k]), Len(Str(max_value)))]
    IN  <<" ", " ">> \o Join(<<",", " ">>, formatted_values)
        \o (IF i + RowLength <= Len(data) THEN <<",">> ELSE <<>>)

FormatRow(data, i, max_value) ==
    LET line_data == SubSeq(data, i + 1, Min(i + RowLength, Len(data)))
        formatted_values ==
            [k \in DOMAIN line_data |->
                RightAlign(Str(line_data[k]), Len(Str(max_value)))]
    IN  <<" ", " ">> \o Join(<<",", " ">>, formatted_values)
        \o (IF i + RowLength < Len(data) THEN <<",">> ELSE <<>>)

\* The declaration of one array, its rows and the closing line.
ArrayLines(g, data, name, axis) ==
    << <<"const ", g.data_type, " ", name, axis, "[XY_ARRAY_SIZE] = {">> >>
    \o [r \in 1 .. (Len(data) + RowLength - 1) \div RowLength |->
           FormatRow(data, RowLength * (r - 1), g.max_value)]
    \o << <<"}", ";">> >>

\* format_xy_arrays: the lines it joins with "\n".
format_xy_arrays(g, x_data, y_data, name, description) ==
    << <<"/** @brief ", description, " */">> >>
    \o ArrayLines(g, x_data, name, "_x")
    \o << <<>> >>
    \o ArrayLines(g, y_data, name, "_y")

---------------------------------------------------------------------------
(* Specification FormatSpec: format_xy_arrays called on one pair of        *)
(* buffers of equal length.                                                *)

\* Bit depths drawn: max_value of 1, 2, 3 and 4 decimal digits.
FormatBits == {1, 4, 7, 10}

\* Buffers drawn: element i is (i * step + offset) mod (max_value + 1).
Buffer(size, step, offset, max_value) ==
    [i \in 1 .. size |-> ((i - 1) * step + offset) % (max_value + 1)]

FormatInit ==
    /\ MainIdle
    /\ q = QuantIdle /\ acc = AccessorIdle /\ out = OutputIdle
    /\ det = CallsIdle /\ tab = TableIdle
    /\ \E bits \in FormatBits, size \in 1 .. MaxRows * RowLength + 1,
          step \in {1, 7}, offset \in {0, 9} :
          LET g == NewGenerator(bits, size).obj
          IN  fmt = [phase |-> "drawn", generator |-> g,
                     x |-> Buffer(size, step, offset, g.max_value),
                     y |-> Buffer(size, step + 2, offset + 1, g.max_value),
                     lines |-> <<>>]

Format ==
    /\ fmt.phase = "drawn"
    /\ fmt' = [fmt EXCEPT !.phase = "formatted",
                          !.lines = format_xy_arrays(fmt.generator, fmt.x, fmt.y,
                                                     "circle", "Perfect circle")]
    /\ UNCHANGED <<main_vars, q, acc, out, det, tab>>

FormatNext == Format

FormatSpec == FormatInit /\ [][FormatNext]_vars

---------------------------------------------------------------------------
(* The C functions the second literal of generate_header holds, as the     *)
(* literal writes them.  The header declares k patterns of N points; table *)
(* entry p of xy_patterns_x / xy_patterns_y points to the arrays of        *)
(* pattern p.  The enumerated type is compatible with a signed or an       *)
(* unsigned integer type, as the C implementation chooses; uint16_t values *)
(* wrap modulo Uint16Range.                                                *)

\* The X and the Y array element of pattern p at index i.
ArrayX(p, i) == 10 * p + i
ArrayY(p, i) == 100 + 10 * p + i

\* The value a parameter of type xy_pattern_type_t holds when the caller
\* passes the integer value.
AsPatternType(value, enum_signed) ==
    IF enum_signed THEN value ELSE value % Uint16Range

\* The value a uint16_t parameter or variable holds.
AsUint16(value) == value % Uint16Range

\* get_xy_point(pattern, index): the point returned and the table entries
\* and array elements read.  Reading outside a table is undefined: the
\* call may return any point or fault.
get_xy_point(h, pattern, index) ==
    LET p == AsPatternType(pattern, h.enum_signed)
        i == AsUint16(index)
        centre == [x |-> h.center, y |-> h.center]
    IN  IF p < h.count /\ i < h.size
        THEN IF p >= 0
             THEN { [outcome |-> "returned",
                     point |-> [x |-> ArrayX(p, i), y |-> ArrayY(p, i)],
                     reads |-> {<<p, i>>}] }
             ELSE { [outcome |-> o, point |-> [x |-> v, y |-> w],
                     reads |-> {<<p, i>>}] :
                      o \in {"returned", "fault"},
                      v \in {0, h.center}, w \in {0, h.center} }
        ELSE { [outcome |-> "returned", point |-> centre, reads |-> {}] }

\* The emitted headers drawn: k patterns of N points.
Headers ==
    [count : 1 .. MaxPatterns, size : 1 .. MaxSize, center : {127},
     enum_signed : BOOLEAN]

---------------------------------------------------------------------------
(* Specification AccessorSpec: one call of get_xy_point.                   *)

AccessorInit ==
    /\ MainIdle
    /\ q = QuantIdle /\ fmt = FormatIdle /\ out = OutputIdle
    /\ det = CallsIdle /\ tab = TableIdle
    /\ \E h \in Headers :
       \E pattern \in -1 .. h.count + 1, index \in 0 .. h.size + 1 :
          acc = [phase |-> "called", header |-> h, pattern |-> pattern,
                 index |-> index, outcome |-> "", point |-> [x |-> 0, y |-> 0],
                 reads |-> {}]

GetXYPoint ==
    /\ acc.phase = "called"
    /\ \E res \in get_xy_point(acc.header, acc.pattern, acc.index) :
          acc' = [acc EXCEPT !.phase = "done", !.outcome = res.outcome,
                             !.point = res.point, !.reads = res.reads]
    /\ UNCHANGED <<main_vars, q, fmt, out, det, tab>>

AccessorNext == GetXYPoint

AccessorSpec == AccessorInit /\ [][AccessorNext]_vars

---------------------------------------------------------------------------
(* Specification OutputSpec: one call of output_xy_pattern, one action per *)
(* pass of its loop.  out.i is the uint16_t loop variable; out.passes      *)
(* counts the passes made and out.in_order tells whether pass number n     *)
(* (from 0) was made at index n every time so far.                         *)

\* The array sizes drawn: the small ones and the first one a uint16_t
\* cannot count to.
OutputHeaders ==
    [count : 1 .. MaxPatterns, size : (1 .. MaxSize) \cup {Uint16Range},
     center : {127}, enum_signed : BOOLEAN]

OutputInit ==
    /\ MainIdle
    /\ q = QuantIdle /\ fmt = FormatIdle /\ acc = AccessorIdle
    /\ det = CallsIdle /\ tab = TableIdle
    /\ \E h \in OutputHeaders, x_func \in BOOLEAN, y_func \in BOOLEAN :
       \E pattern \in 0 .. h.count :
          out = [phase |-> "called", header |-> h, pattern |-> pattern,
                 dac_x_func |-> x_func, dac_y_func |-> y_func,
                 i |-> 0, passes |-> 0, in_order |-> TRUE,
                 calls |-> <<>>, result |-> ""]

\* if (dac_x_func == NULL || dac_y_func == NULL) return XY_NULL_POINTER_ERROR;
\* otherwise the loop starts with i = 0.
OutputEnter ==
    /\ out.phase = "called"
    /\ out' = IF ~out.dac_x_func \/ ~out.dac_y_func
              THEN [out EXCEPT !.phase = "returned",
                               !.result = "XY_NULL_POINTER_ERROR"]
              ELSE [out EXCEPT !.phase = "loop", !.i = AsUint16(0)]
    /\ UNCHANGED <<main_vars, q, fmt, acc, det, tab>>

\* One pass: i < XY_ARRAY_SIZE holds, the point is fetched, dac_x_func and
\* then dac_y_func are called, i++.  out.calls holds the calls of the last
\* pass.
OutputPass ==
    /\ out.phase = "loop"
    /\ out.i < out.header.size
    /\ out.passes < out.header.size + MaxSize
    /\ \E res \in get_xy_point(out.header, out.pattern, out.i) :
          out' = [out EXCEPT !.i = AsUint16(out.i + 1),
                             !.passes = out.passes + 1,
                             !.in_order = out.in_order /\ out.i = out.passes,
                             !.calls = << [func |-> "dac_x_func", index |-> out.i,
                                           value |-> res.point.x],
                                          [func |-> "dac_y_func", index |-> out.i,
                                           value |-> res.point.y] >>]
    /\ UNCHANGED <<main_vars, q, fmt, acc, det, tab>>

\* i < XY_ARRAY_SIZE fails: return XY_OK.
OutputExit ==
    /\ out.phase = "loop"
    /\ ~(out.i < out.header.size)
    /\ out' = [out EXCEPT !.phase = "returned", !.result = "XY_OK"]
    /\ UNCHANGED <<main_vars, q, fmt, acc, det, tab>>

OutputNext ==
    \/ OutputEnter
    \/ OutputPass
    \/ OutputExit

OutputSpec == OutputInit /\ [][OutputNext]_vars

---------------------------------------------------------------------------
(* Specification CallsSpec: up to MaxCalls generator calls, one after the  *)
(* other, on one generator object and one random module.  det.history      *)
(* holds each call with what it returned.                                  *)

\* The calls drawn: the function, its amplitude and its seed (the seed is
\* read by generate_noise only).
CallsDrawn ==
    { [func |-> "generate_noise", amplitude |-> Scale, seed |-> DefaultSeed],
      [func |-> "generate_noise", amplitude |-> Scale, seed |-> 1],
      [func |-> "generate_sine", amplitude |-> Scale, seed |-> 0],
      [func |-> "generate_sine", amplitude |-> 2 * Scale, seed |-> 0],
      [func |-> "generate_linear_ramp", amplitude |-> Scale, seed |-> 0],
      [func |-> "generate_circle", amplitude |-> Real(8, 10), seed |-> 0] }

\* What one call returns, and the state it leaves the random module in.
GeneratorCall_noise_not_reseeded(g, call, state) ==
    IF call.func = "generate_noise"
    THEN LET states == RandomStates(state, g.array_size)
             res == Samples(g, LAMBDA i :
                        FMul(call.amplitude, 2 * RandomValue(states[i + 1]) - Scale))
         IN  [raised |-> res.raised, data |-> res.data, x |-> <<>>, y |-> <<>>,
              random_state |-> states[g.array_size]]
    ELSE [raised |-> "", data |-> <<>>, x |-> <<>>, y |-> <<>>,
          random_state |-> state]

GeneratorCall(g, call, state) ==
    IF call.func = "generate_noise"
    THEN LET res == generate_noise(g, call.amplitude, call.seed)
         IN  [raised |-> res.raised, data |-> res.data, x |-> <<>>, y |-> <<>>,
              random_state |-> res.random_state]
    ELSE IF call.func = "generate_circle"
    THEN LET res == xy_generate_circle(g, call.amplitude, 0)
         IN  [raised |-> res.raised, data |-> <<>>, x |-> res.x, y |-> res.y,
              random_state |-> state]
    ELSE LET res == IF call.func = "generate_sine"
                    THEN generate_sine(g, call.amplitude, Scale, 0)
                    ELSE generate_linear_ramp(g)
         IN  [raised |-> res.raised, data |-> res.data, x |-> <<>>, y |-> <<>>,
              random_state |-> state]

CallsInit ==
    /\ MainIdle
    /\ q = QuantIdle /\ fmt = FormatIdle /\ acc = AccessorIdle
    /\ out = OutputIdle /\ tab = TableIdle
    /\ \E size \in 1 .. MaxSize, state \in {0, 7} :
          det = [phase |-> "calling",
                 generator |-> NewGenerator(Uint8Bits, size).obj,
                 random_state |-> state,
                 history |-> <<>>]

Call ==
    /\ det.phase = "calling"
    /\ Len(det.history) < MaxCalls
    /\ \E call \in CallsDrawn :
          LET res == GeneratorCall(det.generator, call, det.random_state)
          IN  det' = [det EXCEPT
                        !.random_state = res.random_state,
                        !.history = Append(@, [call |-> call,
                                               raised |-> res.raised,
                                               data |-> res.data,
                                               x |-> res.x, y |-> res.y])]
    /\ UNCHANGED <<main_vars, q, fmt, acc, out, tab>>

CallsNext == Call

CallsSpec == CallsInit /\ [][CallsNext]_vars

---------------------------------------------------------------------------
(* Specification SineSpec: one call of generate_sine, and the caller       *)
(* reading the table it returned from index 0 up.                          *)

SineConfigs ==
    [bits : {Uint8Bits, Uint8Bits + 1}, size : {4, 256},
     amplitude : {Scale \div 2, Scale}, frequency : {Scale, 2 * Scale},
     phase : {0}]

SineInit ==
    /\ MainIdle
    /\ q = QuantIdle /\ fmt = FormatIdle /\ acc = AccessorIdle
    /\ out = OutputIdle /\ det = CallsIdle
    /\ \E config \in SineConfigs :
          tab = [phase |-> "drawn", config |-> config, table |-> <<>>,
                 raised |-> "", i |-> -1, element |-> -1]

SineCall ==
    /\ tab.phase = "drawn"
    /\ LET c == tab.config
           res == generate_sine(NewGenerator(c.bits, c.size).obj,
                                c.amplitude, c.frequency, c.phase)
       IN  tab' = [tab EXCEPT !.phase = "generated", !.table = res.data,
                              !.raised = res.raised]
    /\ UNCHANGED <<main_vars, q, fmt, acc, out, det>>

SineRead ==
    /\ tab.phase = "generated"
    /\ tab.i + 1 < Len(tab.table)
    /\ tab' = [tab EXCEPT !.i = tab.i + 1, !.element = tab.table[tab.i + 2]]
    /\ UNCHANGED <<main_vars, q, fmt, acc, out, det>>

SineNext ==
    \/ SineCall
    \/ SineRead

SineSpec == SineInit /\ [][SineNext]_vars

---------------------------------------------------------------------------
(* Claims.                                                                 *)

\* The lists one entry of waveforms holds.
Buffers(entry) == {entry.data, entry.x, entry.y}

\* C1: every element of every generated buffer (the linear ramp, which
\* bypasses normalize, and both the X and the Y buffer of an XY pattern
\* included) is an integer v with 0 <= v <= max_value.
C1_BufferRange ==
    \A k \in DOMAIN waveforms : \A buf \in Buffers(waveforms[k]) :
        \A i \in DOMAIN buf : buf[i] \in 0 .. generator.max_value

\* C1 witness: all sixteen waveforms generated at 17 bits with amplitude 2,
\* which drives the formulas past the nominal range.
C1_Witness ==
    /\ prog = "wave"
    /\ args.bits = 17
    /\ args.amplitude = 2 * Scale
    /\ Len(waveforms) = 16
    /\ \E k \in DOMAIN waveforms :
          waveforms[k].name = "ramp" /\ Len(waveforms[k].data) = args.size

\* code is the integer nearest max_value / 2, the even one of the two when
\* max_value is odd.
IsHalfTiesToEven(code, max_value) ==
    /\ 2 * code - max_value \in {-1, 0, 1}
    /\ 2 * code # max_value => code % 2 = 0

\* C2: with M = 2^bits - 1, quantize(-1, M) = 0, quantize(1, M) = M and
\* quantize(0, M) = round_ties_to_even(M / 2), for normalize and for each
\* coordinate of normalize_xy (applied to the point (value, -value)).
C2_QuantizerFixedPoints ==
    q.phase = "quantized" =>
        /\ q.max_value + 1 = 2 ^ q.bits
        /\ q.value = -Scale =>
              q.code = 0 /\ q.xy[1] = 0 /\ q.xy[2] = q.max_value
        /\ q.value = Scale =>
              q.code = q.max_value /\ q.xy[1] = q.max_value /\ q.xy[2] = 0
        /\ q.value = 0 =>
              /\ IsHalfTiesToEven(q.code, q.max_value)
              /\ IsHalfTiesToEven(q.xy[1], q.max_value)
              /\ IsHalfTiesToEven(q.xy[2], q.max_value)

\* C2 witness: 0 quantized at 8 bits gives 128 (127.5 rounds to the even
\* neighbour).
C2_Witness ==
    /\ q.phase = "quantized"
    /\ q.bits = 8
    /\ q.value = 0
    /\ q.code = 128
    /\ q.xy = <<128, 128>>

\* main has built the generator object.
Constructed == generator.data_type # "none"

\* The steps of main that follow a successful construction.
AfterConstruction ==
    {"list_templates", "list", "select", "generate", "render", "write"}

StorageWidth(data_type) ==
    CASE data_type = "uint8_t" -> 8
      [] data_type = "uint16_t" -> 16
      [] data_type = "uint32_t" -> 32
      [] OTHER -> 0

\* C4: for bits in 1..32 the constructor (the same in both programs) gives
\* max_value = 2^bits - 1 and the storage type whose width is the smallest
\* of 8, 16, 32 that is >= bits; main past the constructor holds that object.
C4_MaxValueAndStorage ==
    (args.bits \in 1 .. 32 /\ pc \in AfterConstruction) =>
        /\ Constructed
        /\ generator.bits = args.bits
        /\ generator.max_value + 1 = 2 ^ args.bits
        /\ StorageWidth(generator.data_type) \in {8, 16, 32}
        /\ StorageWidth(generator.data_type) >= args.bits
        /\ \A w \in {8, 16, 32} :
              w >= args.bits => StorageWidth(generator.data_type) <= w

\* C4 witness: both programs build a 9-bit generator stored as uint16_t.
C4_Witness ==
    /\ args.bits = 9
    /\ Constructed
    /\ generator.max_value = 511
    /\ generator.data_type = "uint16_t"

\* C3 (as the claim states it): a non-finite amplitude given on the command
\* line never surfaces as an error; every generator invoked returns a buffer.
\* The array size is taken above 1 so that the ramp's division is not the
\* cause.
C3_NonFiniteNeverSurfaces ==
    (prog = "wave" /\ ~IsFinite(args.amplitude) /\ args.size > 1) =>
        /\ status # "uncaught exception"
        /\ pc \in {"render", "write", "done"} => Len(waveforms) = Len(invoked)

\* C5: with bits > 32 on a run that reaches the constructor, construction
\* fails before any generator function is invoked: main returns a non-zero
\* status, no buffer is computed and no artifact is written, in both
\* programs and for any selection.
C5_UnsupportedBitDepthFails ==
    (args.bits > 32 /\ ~args.setup) =>
        /\ ~Constructed
        /\ pc \in {"setup", "construct", "done"}
        /\ invoked = <<>>
        /\ waveforms = <<>>
        /\ file = NoFile
        /\ pc = "done" => status = "returned 1"

\* C5 witness: the XY program and the single-channel program, asked for 33
\* bits and a valid selection, have returned 1 from the constructor's
\* handler.
C5_Witness ==
    /\ args.bits = 33
    /\ ~args.setup
    /\ \/ args.selection = << <<"sine">> >>
       \/ args.selection = << <<"circle">> >>
    /\ pc = "done"
    /\ status = "returned 1"
    /\ dirs = {}

\* C6 (as the claim states it): with bits < 1 construction fails as it does
\* for bits > 32: nothing is computed, no artifact is written and main
\* returns a non-zero status.
C6_BitsBelowOneFails ==
    (args.bits < 1 /\ ~args.setup) =>
        /\ ~Constructed
        /\ invoked = <<>>
        /\ waveforms = <<>>
        /\ file = NoFile
        /\ pc = "done" => status = "returned 1"

\* The entries of waveforms the ramp produced.
RampEntries == { k \in DOMAIN waveforms : waveforms[k].name = "ramp" }

\* v is the integer nearest num / den (den > 0), the even one on a tie.
IsNearestTiesToEven(v, num, den) ==
    /\ 2 * den * v - 2 * num \in -den .. den
    /\ (2 * den * v - 2 * num \in {-den, den}) => v % 2 = 0

\* C7: for N > 1 the ramp's element i is round(i * max_value / (N - 1)),
\* i = 0..N-1, element 0 is exactly 0 and element N-1 exactly max_value;
\* for bits = 8 and N = 4 the buffer is [0, 85, 170, 255].
C7_LinearRamp ==
    \A k \in RampEntries :
        LET data == waveforms[k].data
            N == args.size
            M == generator.max_value
        IN  /\ N > 1
            /\ Len(data) = N
            /\ data[1] = 0
            /\ data[N] = M
            /\ \A i \in 0 .. N - 1 : IsNearestTiesToEven(data[i + 1], i * M, N - 1)
            /\ (args.bits = 8 /\ N = 4) => data = <<0, 85, 170, 255>>

\* C7 witness: the ramp generated for bits = 8 and N = 4.
C7_Witness ==
    /\ args.bits = 8
    /\ args.size = 4
    /\ \E k \in RampEntries : waveforms[k].data = <<0, 85, 170, 255>>

\* C8 (as the claim states it): for every N >= 1 every generator invoked
\* returns normally with exactly N elements (the ramp at N = 1 included),
\* and an XY pattern's X and Y buffers both have N elements.  The amplitude
\* is taken finite so that rounding a non-finite value is not the cause.
C8_EveryBufferHasSizeElements ==
    IsFinite(args.amplitude) =>
        /\ status # "uncaught exception"
        /\ \A k \in DOMAIN waveforms :
              IF prog = "wave"
              THEN Len(waveforms[k].data) = args.size
              ELSE /\ Len(waveforms[k].x) = args.size
                   /\ Len(waveforms[k].y) = args.size

\* The identifiers of the selection list the registry does not hold.
UnknownIdentifiers ==
    { name \in Range(StrippedList(args.selection)) :
        name \notin Range(AvailableNames(prog)) }

\* A generation request: no --setup, --list-templates or --list-* flag.
GenerationRequest == ~args.setup /\ ~args.list_templates /\ ~args.list

\* C9: a generation request whose explicit selection holds at least one
\* unregistered identifier fails whatever valid identifiers it also holds:
\* no generator function is invoked, no buffer is computed, no artifact is
\* written and main returns a failure status, for --waves and --patterns.
C9_SelectionAtomicity ==
    (GenerationRequest /\ ~IsAll(args.selection) /\ UnknownIdentifiers # {}) =>
        /\ pc \notin {"generate", "render", "write"}
        /\ invoked = <<>>
        /\ waveforms = <<>>
        /\ header_content = NoText
        /\ file = NoFile
        /\ pc = "done" => status = "returned 1"

\* C9 witness: each program was given one valid and one unknown identifier,
\* picked the valid one, and returned 1 from the selection step.
C9_Witness ==
    /\ GenerationRequest
    /\ Len(args.selection) = 2
    /\ selected \in {<<"sine">>, <<"circle">>}
    /\ reported = <<"bogus">>
    /\ pc = "done"
    /\ status = "returned 1"
    /\ invoked = <<>>

\* C10: when the selection step fails on unknown identifiers, the one error
\* names exactly the invalid identifiers: each selected identifier absent
\* from the registry once, and no registered identifier.
C10_ReportNamesInvalidSet ==
    /\ reported # <<>> =>
          /\ ~IsAll(args.selection)
          /\ status = "returned 1"
          /\ \A name \in UnknownIdentifiers :
                Cardinality({ i \in DOMAIN reported : reported[i] = name }) = 1
          /\ \A i \in DOMAIN reported : reported[i] \in UnknownIdentifiers
    /\ (Constructed /\ GenerationRequest /\ pc = "done"
          /\ ~IsAll(args.selection) /\ UnknownIdentifiers # {}) => reported # <<>>

\* C10 witness: two distinct unknown identifiers, one written with white
\* space around it, are both named.
C10_Witness ==
    /\ Len(args.selection) = 2
    /\ Len(reported) = 2
    /\ Range(reported) = {"bogus", "nope"}
    /\ status = "returned 1"

\* The selection string is empty or blank: every item of the list strips
\* to the empty string.
BlankSelection ==
    \A i \in DOMAIN args.selection : Strip(args.selection[i]) = ""

\* C11 (as the claim states it): a generation request whose selection
\* resolves to zero valid identifiers, the empty selection string for one,
\* fails with the EmptySelection error, no generator invoked and no artifact
\* written.
C11_EmptySelectionFails ==
    (Constructed /\ GenerationRequest /\ BlankSelection /\ pc = "done") =>
        /\ status = "returned 1"
        /\ error = "EmptySelection"
        /\ invoked = <<>>
        /\ file = NoFile

\* An XY run whose selection succeeded, whose every selected pattern was
\* generated, and which has ended without an I/O error.
XYRunGenerated ==
    /\ prog = "xy"
    /\ selected # <<>>
    /\ Len(waveforms) = Len(selected)
    /\ pc = "done"
    /\ error # "IOError"

\* The names of the entries of an emitted header, in the order emitted.
EmittedNames(text) == [i \in DOMAIN text.entries |-> text.entries[i].name]

\* C12 (as the claim states it): after a successful selection the emitted
\* enumeration lists the selected identifiers in selection order with the
\* values 0, 1, ..., k-1 and ends with a count sentinel equal to k.
C12_EnumerationInSelectionOrder ==
    XYRunGenerated =>
        /\ file # NoFile
        /\ EmittedNames(file[1]) = selected
        /\ LET enum == enum_values(EmittedNames(file[1]))
               k == Len(selected)
           IN  /\ Len(enum) = k + 1
               /\ \A i \in 1 .. k :
                     enum[i].name = selected[i] /\ enum[i].value = i - 1
               /\ enum[k + 1].value = k

\* C13 (as the claim states it): in the emitted XY artifact the X-pointer
\* table, the Y-pointer table and the display-name table each have k
\* entries in the order of the enumeration, entry i referring to the arrays
\* and name of the identifier with enumeration value i, and the data block
\* of each identifier appears exactly once.
C13_TablesParallelToEnumeration ==
    XYRunGenerated =>
        /\ file # NoFile
        /\ LET names == EmittedNames(file[1])
               enum == enum_values(names)
               xs == pointer_table(names, "x")
               ys == pointer_table(names, "y")
               titles == display_names(names)
               k == Len(selected)
           IN  /\ Len(xs) = k /\ Len(ys) = k /\ Len(titles) = k
               /\ \A i \in 1 .. k :
                     /\ enum[i].value = i - 1
                     /\ xs[i] = [array |-> enum[i].name, axis |-> "x"]
                     /\ ys[i] = [array |-> enum[i].name, axis |-> "y"]
                     /\ titles[i].title_of = enum[i].name
               /\ \A name \in Range(selected) :
                     Cardinality({ i \in DOMAIN file[1].entries :
                                     file[1].entries[i].name = name }) = 1

\* The lines of an emitted block that stand between the declaration at
\* line first - 1 and the next closing line.
RECURSIVE RowsFrom(_, _)
RowsFrom(lines, first) ==
    IF first > Len(lines) \/ lines[first] = <<"}", ";">> THEN <<>>
    ELSE <<lines[first]>> \o RowsFrom(lines, first + 1)

\* The pieces of a character sequence between its commas.
RECURSIVE SplitAtCommas(_)
SplitAtCommas(chars) ==
    IF \A i \in DOMAIN chars : chars[i] # "," THEN <<chars>>
    ELSE LET c == CHOOSE i \in DOMAIN chars :
                     chars[i] = "," /\ \A j \in 1 .. i - 1 : chars[j] # ","
         IN  <<SubSeq(chars, 1, c - 1)>>
             \o SplitAtCommas(SubSeq(chars, c + 1, Len(chars)))

\* The number a field of blanks followed by digits denotes; -1 for any
\* other field.
RECURSIVE FieldValue(_)
FieldValue(field) ==
    IF field = <<>> THEN -1
    ELSE IF Head(field) = " " THEN FieldValue(Tail(field))
    ELSE IF \E i \in DOMAIN field : \A d \in DOMAIN DigitChars : field[i] # DigitChars[d]
    THEN -1
    ELSE LET last == CHOOSE d \in 0 .. 9 : DigitChars[d + 1] = field[Len(field)]
         IN  IF Len(field) = 1 THEN last
             ELSE 10 * FieldValue(SubSeq(field, 1, Len(field) - 1)) + last

\* The number of decimal digits of n >= 0.
DecimalDigits(n) == CHOOSE d \in 1 .. 10 : n < 10 ^ d /\ (d = 1 \/ n >= 10 ^ (d - 1))

\* The fields of a data row: the row without its two leading blanks and
\* its trailing comma, cut at ", ".
RowFields(row) ==
    LET body == SubSeq(row, 3, IF row[Len(row)] = "," THEN Len(row) - 1 ELSE Len(row))
        pieces == SplitAtCommas(body)
    IN  [k \in DOMAIN pieces |->
            IF k = 1 THEN pieces[k] ELSE Tail(pieces[k])]

RECURSIVE Flatten(_)
Flatten(seqs) == IF seqs = <<>> THEN <<>> ELSE Head(seqs) \o Flatten(Tail(seqs))

\* rows render data as C14 states.
RowsRender(rows, data, max_value) ==
    LET N == Len(data)
        R == Len(rows)
    IN  /\ R = (N + 15) \div 16
        /\ \A r \in 1 .. R :
              LET row == rows[r]
                  fields == RowFields(row)
              IN  /\ SubSeq(row, 1, 2) = <<" ", " ">>
                  /\ Len(fields) = IF r < R THEN 16 ELSE N - 16 * (R - 1)
                  /\ Len(fields) \in 1 .. 16
                  /\ (row[Len(row)] = ",") <=> (r < R)
                  /\ \A k \in DOMAIN fields :
                        /\ Len(fields[k]) = DecimalDigits(max_value)
                        /\ FieldValue(fields[k]) = data[16 * (r - 1) + k]
                        /\ k > 1 => SplitAtCommas(SubSeq(row, 3, Len(row)))[k][1] = " "
        /\ Flatten([r \in 1 .. R |->
                      [k \in DOMAIN RowFields(rows[r]) |->
                          FieldValue(RowFields(rows[r])[k])]]) = data

\* C14: for a buffer of N >= 1 values format_xy_arrays emits ceil(N / 16)
\* rows holding the values in index order, 16 per row but 1..16 on the
\* last, separated by commas, every row but the last ending with a comma
\* and the last with none, each value right-aligned in a field as wide as
\* max_value has decimal digits; this for the X and for the Y array.
C14_RowsOfSixteen ==
    fmt.phase = "formatted" =>
        LET x_rows == RowsFrom(fmt.lines, 3)
            y_rows == RowsFrom(fmt.lines, Len(x_rows) + 6)
        IN  /\ RowsRender(x_rows, fmt.x, fmt.generator.max_value)
            /\ RowsRender(y_rows, fmt.y, fmt.generator.max_value)
            /\ Len(fmt.lines) = Len(x_rows) + Len(y_rows) + 6

\* C14 witness: 17 values at 10 bits: a full row ending with a comma, then
\* a row of one value, 4 characters wide, with no comma.
C14_Witness ==
    /\ fmt.phase = "formatted"
    /\ Len(fmt.x) = 17
    /\ fmt.generator.max_value = 1023
    /\ fmt.x[17] = 16
    /\ Len(RowsFrom(fmt.lines, 3)) = 2
    /\ RowsFrom(fmt.lines, 3)[2] = <<" ", " ", " ", " ", "1", "6">>
    /\ Len(RowsFrom(fmt.lines, 3)[1]) = 2 + 16 * 4 + 15 * 2 + 1

\* C15 (as the claim states it): get_xy_point(pattern, index) returns
\* (x[pattern][index], y[pattern][index]) when 0 <= pattern < pattern count
\* and 0 <= index < N; for every other (pattern, index) it returns (center,
\* center) and reads no table or array element, so it never reads out of
\* bounds and never fails.
C15_AccessorBoundsChecked ==
    acc.phase = "done" =>
        LET h == acc.header
            valid == acc.pattern \in 0 .. h.count - 1 /\ acc.index \in 0 .. h.size - 1
        IN  /\ acc.outcome = "returned"
            /\ \A read \in acc.reads :
                  read[1] \in 0 .. h.count - 1 /\ read[2] \in 0 .. h.size - 1
            /\ valid => acc.point = [x |-> ArrayX(acc.pattern, acc.index),
                                     y |-> ArrayY(acc.pattern, acc.index)]
            /\ ~valid => acc.point = [x |-> h.center, y |-> h.center]
                         /\ acc.reads = {}

\* The point the header holds for pattern p at index i: the arrays'
\* elements for a valid pattern, the centre otherwise.
PointOf(h, p, i) ==
    IF p \in 0 .. h.count - 1
    THEN [x |-> ArrayX(p, i), y |-> ArrayY(p, i)]
    ELSE [x |-> h.center, y |-> h.center]

\* C16 (as the claim states it): output_xy_pattern returns the null-pointer
\* status without invoking a callable when the X or the Y callable is
\* absent; otherwise it visits i = 0, 1, ..., N-1 in increasing order, each
\* exactly once, passing point i's x to the X callable and then its y to
\* the Y callable, and returns the OK status.
C16_OutputVisitsEachIndexOnce ==
    /\ out.phase # "idle" =>
          /\ out.in_order
          /\ out.passes <= out.header.size
          /\ out.calls # <<>> =>
                /\ out.calls[1].func = "dac_x_func"
                /\ out.calls[2].func = "dac_y_func"
                /\ out.calls[1].index = out.passes - 1
                /\ out.calls[2].index = out.passes - 1
                /\ out.calls[1].value = PointOf(out.header, out.pattern, out.passes - 1).x
                /\ out.calls[2].value = PointOf(out.header, out.pattern, out.passes - 1).y
    /\ out.phase = "returned" =>
          IF out.dac_x_func /\ out.dac_y_func
          THEN out.result = "XY_OK" /\ out.passes = out.header.size
          ELSE out.result = "XY_NULL_POINTER_ERROR" /\ out.passes = 0

\* C17: every generator is deterministic and independent of the calls made
\* before it: two calls with identical function and parameters on the same
\* (bits, size) return identical buffers, whatever was called in between,
\* earlier noise calls included; generate_noise with the same seed always
\* returns the same sequence.
C17_Deterministic ==
    det.phase = "calling" =>
        \A i, j \in DOMAIN det.history :
            det.history[i].call = det.history[j].call =>
                det.history[i] = det.history[j]

\* C17 witness: noise with the default seed, noise with another seed that
\* leaves the random module in another state, then noise with the default
\* seed again, returning the first buffer.
C17_Witness ==
    /\ det.phase = "calling"
    /\ Len(det.history) = 3
    /\ det.generator.array_size > 1
    /\ det.history[1].call.func = "generate_noise"
    /\ det.history[2].call.func = "generate_noise"
    /\ det.history[1].call.seed = DefaultSeed
    /\ det.history[2].call.seed # DefaultSeed
    /\ det.history[2].data # det.history[1].data
    /\ det.history[3].call = det.history[1].call
    /\ det.history[3].data = det.history[1].data

\* The run ended on a failure other than an I/O error of the final write.
FailedBeforeWrite == pc = "done" /\ error \notin {"", "IOError"}

\* C18: in every run of either main the output file is written only after
\* every selected buffer has been generated and the whole text assembled,
\* and at most once; a failure before that write (unsupported bits, unknown
\* or empty selection, a generator raising, template missing, render
\* error) leaves no artifact file and ends the run with a failure status.
C18_WriteOnceAtTheEnd ==
    /\ [](/\ file # NoFile =>
                /\ pc = "done"
                /\ Len(file) = 1
                /\ selected # <<>>
                /\ Len(waveforms) = Len(selected)
                /\ header_content # NoText
                /\ file[1] \in {header_content, NoText}
          /\ FailedBeforeWrite =>
                /\ file = NoFile
                /\ status \in {"returned 1", "uncaught exception"})
    /\ [][file' # file =>
             /\ file = NoFile
             /\ pc = "write"
             /\ pc' = "done"]_vars

\* C18 witness: a run that generated two waveforms, rendered the text and
\* then wrote exactly that text.
C18_Witness ==
    /\ pc = "done"
    /\ status = "returned 0"
    /\ Len(selected) = 2
    /\ Len(invoked) = 2
    /\ file = <<header_content>>
    /\ header_content.entries = waveforms

\* C19 (as the claim states it): whenever a listing is requested
\* (--list-waves, --list-patterns), whatever the other arguments, main
\* returns the success status, invokes no generator function and writes no
\* artifact; otherwise main returns the success status only when the
\* artifact was written.  Runs that end on a missing jinja2 are left out,
\* and so are --setup and --list-templates in the second part.
C19_ListingSucceeds ==
    /\ (args.list /\ pc = "done" /\ error # "ImportError") =>
          /\ status = "returned 0"
          /\ invoked = <<>>
          /\ file = NoFile
    /\ (status = "returned 0" /\ ~args.list /\ ~args.setup /\ ~args.list_templates) =>
          file = <<header_content>> /\ header_content # NoText

\* C20: with bits = 8, size = 256, amplitude = 1, frequency = 1 and
\* phase = 0, generate_sine returns a buffer whose element 0 is 128 and
\* whose element 64 is 255.
C20_SineCenterAndPeak ==
    (/\ tab.phase = "generated"
     /\ tab.config = [bits |-> 8, size |-> 256, amplitude |-> Scale,
                      frequency |-> Scale, phase |-> 0]) =>
        /\ tab.raised = ""
        /\ Len(tab.table) = 256
        /\ tab.table[1] = 128
        /\ tab.table[65] = 255
        /\ tab.i = 0 => tab.element = 128
        /\ tab.i = 64 => tab.element = 255

\* C20 witness: element 64 of that table has been read, after element 0.
C20_Witness ==
    /\ tab.phase = "generated"
    /\ tab.config = [bits |-> 8, size |-> 256, amplitude |-> Scale,
                     frequency |-> Scale, phase |-> 0]
    /\ tab.i = 64
    /\ tab.element = 255
    /\ tab.table[1] = 128

\* C21: with bits = 8, size = 4, radius = 0.8 and phase = 0,
\* generate_circle returns X and Y buffers whose element 0 is
\* (x, y) = (quantize(0.8, 255), quantize(0, 255)) = (230, 128).
C21_CircleFirstPoint ==
    \A k \in 1 .. Len(det.history) :
        (/\ det.phase = "calling"
         /\ det.generator.bits = 8
         /\ det.generator.array_size = 4
         /\ det.history[k].call.func = "generate_circle"
         /\ det.history[k].call.amplitude = Real(8, 10)) =>
            /\ det.history[k].raised = ""
            /\ Len(det.history[k].x) = 4
            /\ Len(det.history[k].y) = 4
            /\ det.history[k].x[1] = normalize(Real(8, 10), 255)
            /\ det.history[k].y[1] = normalize(0, 255)
            /\ <<det.history[k].x[1], det.history[k].y[1]>> = <<230, 128>>

\* C21 witness: that circle has been generated, and its first point is
\* (230, 128).
C21_Witness ==
    /\ det.phase = "calling"
    /\ det.generator.bits = 8
    /\ det.generator.array_size = 4
    /\ \E k \in 1 .. Len(det.history) :
          /\ det.history[k].call.func = "generate_circle"
          /\ det.history[k].call.amplitude = Real(8, 10)
          /\ det.history[k].x[1] = 230
          /\ det.history[k].y[1] = 128

\* C22 (as the claim states it): for every bits in 1..32, the center value
\* stored in the generator (the value the XY_CENTER preamble constant and
\* the out-of-range accessor take from it) equals the code the quantizer
\* assigns to the real value 0: center = quantize(0, max_value), 128 for
\* bits = 8.
C22_CenterIsQuantizedZero ==
    (Constructed /\ generator.bits \in 1 .. MaxSupportedBits) =>
        /\ generator.center = normalize(0, generator.max_value)
        /\ <<generator.center, generator.center>> =
               normalize_xy(0, 0, generator.max_value)
        /\ generator.bits = 8 => generator.center = 128

\* C23 (as the claim states it): for every max_value M >= 1 the quantizer
\* is monotone non-decreasing and saturating: v1 <= v2 implies
\* quantize(v1, M) <= quantize(v2, M), every v <= -1 maps to 0 and every
\* v >= 1 maps to M, so that an out-of-range input never wraps around or
\* leaves [0, M].  It is stated of normalize and of each coordinate of
\* normalize_xy, for the value drawn once the call has ended.
C23_MonotoneSaturating ==
    (q.phase \in {"quantized", "raised"} /\ q.max_value >= 1 /\ q.value # NaN) =>
        /\ q.phase = "quantized"
        /\ q.code \in 0 .. q.max_value
        /\ q.xy[1] \in 0 .. q.max_value
        /\ q.xy[2] \in 0 .. q.max_value
        /\ q.value <= -Scale =>
              q.code = 0 /\ q.xy[1] = 0 /\ q.xy[2] = q.max_value
        /\ q.value >= Scale =>
              q.code = q.max_value /\ q.xy[1] = q.max_value /\ q.xy[2] = 0
        /\ \A v1 \in QuantValues :
              /\ v1 <= q.value =>
                    /\ normalize(v1, q.max_value) <= q.code
                    /\ normalize_xy(v1, 0, q.max_value)[1] <= q.xy[1]
              /\ v1 <= -q.value =>
                    normalize_xy(0, v1, q.max_value)[2] <= q.xy[2]

====
